---- MODULE Spec2Model ----
(***************************************************************************)
(* Model of the personal assistant: the interactive shell                  *)
(* (ai_assistant_main.py), the assistant loop PersonalAssistant            *)
(* (ai_assistant_agent.py) and the Microsoft 365 client M365Client         *)
(* (m365_client.py).                                                       *)
(*                                                                         *)
(* The completion service and the Graph API are remote: every request's    *)
(* outcome is a nondeterministic choice.  A completion text is modelled by *)
(* what strip() and json.loads() can see of it: the whitespace around it,  *)
(* its syntactic shape, and (for a JSON object) its 'tool' and             *)
(* 'parameters' members.                                                   *)
(***************************************************************************)
EXTENDS Naturals, Sequences, FiniteSets

VARIABLES
    pc,                    \* where the shell is: "prompt", "call1", "call2", "exited"
    conversation_history,  \* PersonalAssistant.conversation_history
    token,                 \* M365Client.token
    valid_tokens,          \* the tokens the credential provider still honours
    messages,              \* payload of the completion request in flight
    mark,                  \* length of the history when the current turn began
    calls,                 \* completion requests made in the current turn
    replies,               \* completion texts received in the current turn
    tool_name,             \* <<>> or <<name>>: the tool the current turn dispatched
    tool_result,           \* <<>> or <<result>>: what execute_tool returned
    caught,                \* <<>> or the exception execute_tool's except clause caught
    api_ops,               \* M365Client operations invoked in the current turn
    api_reqs,              \* Graph requests issued in the current turn
    outcome,               \* of the current turn: "idle", "running", "returned", "error"
    returned,              \* <<>> or <<text>>: what process_request returned
    after_clear,           \* "no", "cleared" (clear was the last command), "first_turn"
    dropped                \* number of messages the last clear discarded

vars == <<pc, conversation_history, token, valid_tokens, messages, mark, calls,
          replies, tool_name, tool_result, caught, api_ops, api_reqs, outcome,
          returned, after_clear, dropped>>

\* A turn may begin only while the history holds fewer messages than this.
MaxHistory == 4

(***************************************************************************)
(* JSON values, as far as the code looks into them.                        *)
(***************************************************************************)
Absent == [kind |-> "absent", str |-> "", keys |-> {}]
Null == [kind |-> "null", str |-> "", keys |-> {}]
Str(s) == [kind |-> "str", str |-> s, keys |-> {}]
Map(K) == [kind |-> "map", str |-> "", keys |-> K]

\* A completion text: pad is the whitespace around it ("none"; "space": blanks
\* and newlines, which JSON allows; "formfeed": whitespace str.strip() removes
\* and json.loads rejects, such as \f, \v or U+00A0); shape is what is between:
\* "prose", "braces" ({...} that is not JSON) or "object" (a JSON object).
Text(pad, shape, tool, parameters) ==
    [pad |-> pad, shape |-> shape, tool |-> tool, parameters |-> parameters]

Replies ==
    { Text("space", "prose", Absent, Absent),
      Text("none", "braces", Absent, Absent),
      Text("none", "object", Absent, Map({"limit"})),
      Text("formfeed", "object", Str("get_emails"), Map({"limit"})),
      Text("space", "object", Str("get_emails"), Absent),
      Text("none", "object", Str("get_emails"), Null),
      Text("none", "object", Str("send_email"), Map({"to", "subject", "body"})),
      Text("none", "object", Str("send_email"), Map({"subject", "body"})),
      Text("none", "object", Str("get_tasks"), Map({})),
      Text("none", "object", Str("get_tasks"), Map({"plan_id", "filter"})),
      Text("none", "object", Str("create_task"), Map({"plan_id", "title", "description"})),
      Text("none", "object", Str("create_task"), Map({"plan_id", "title"})),
      Text("none", "object", Str("create_task"), Map({"title"})),
      Text("none", "object", Str("foo"), Map({"to"})),
      Text("none", "object", Null, Absent) }

\* What the second completion call may answer: prose, or a text that is
\* itself shaped like a tool call.
FinalReplies ==
    { Text("space", "prose", Absent, Absent),
      Text("none", "object", Str("send_email"), Map({"to", "subject", "body"})) }

\* Lines typed at the prompt, after strip().
Lines == {"exit", "quit", "clear", "CLEAR", "", "show my mail"}

lower(s) == IF s = "CLEAR" THEN "clear" ELSE s

\* Outcomes of one Graph request: a success status with a non-empty payload,
\* a success status with an empty 'value' list, a non-success status, and a
\* transport failure (requests raises ConnectionError).
Outcomes == {"ok", "empty", "bad", "down"}
Success(o) == o \in {"ok", "empty"}

\* What the completion request meets: a response with a status and, with 200,
\* a text; or a transport failure.
Response(status, content) == [transport |-> "ok", status |-> status, content |-> content]
Unreachable == [transport |-> "down", status |-> 0, content |-> <<>>]
Completions(texts) ==
    {Response(200, <<t>>) : t \in texts} \cup {Response(500, <<>>), Unreachable}

(***************************************************************************)
(* m365_client.py                                                          *)
(***************************************************************************)
Ok(text) == [error |-> FALSE, text |-> text]
Err(text) == [error |-> TRUE, text |-> text]

NoException == <<>>
Exception(type, message) == <<type, message>>

_authenticate == "token-1"

_get_headers == [Authorization |-> token]

\* requests.get / requests.post / requests.patch with headers=_get_headers():
\* the request as it leaves, with whether its bearer token is valid then.
Request(op, url, o) ==
    [op |-> op, url |-> url, outcome |-> o,
     bearer |-> _get_headers.Authorization,
     live |-> _get_headers.Authorization \in valid_tokens]

\* The ways an operation ends: it returns a value or raises.
Return(op, value, reqs) == [op |-> op, exc |-> NoException, ret |-> <<value>>, reqs |-> reqs]
Raise(op, e, reqs) == [op |-> op, exc |-> e, ret |-> <<>>, reqs |-> reqs]

ConnectionError == Exception("ConnectionError", "connection failed")

get_emails(limit, filter_str, outs) ==
    LET r1 == Request("get_emails", "GET /me/messages", outs[1])
    IN  IF outs[1] = "down" THEN Raise("get_emails", ConnectionError, <<r1>>)
        ELSE IF Success(outs[1]) THEN Return("get_emails", Ok("emails"), <<r1>>)
        ELSE Return("get_emails", Err("Failed to retrieve emails"), <<r1>>)

send_email(to, subject, body, outs) ==
    LET r1 == Request("send_email", "POST /me/sendMail", outs[1])
    IN  IF outs[1] = "down" THEN Raise("send_email", ConnectionError, <<r1>>)
        ELSE IF Success(outs[1]) THEN Return("send_email", Ok("Email sent"), <<r1>>)
        ELSE Return("send_email", Err("Failed to send email"), <<r1>>)

\* The tasks request of get_tasks, after the requests in `before`.
get_tasks_of_plan(o, before) ==
    LET r == Request("get_tasks", "GET /planner/plans/{id}/tasks", o)
    IN  IF o = "down" THEN Raise("get_tasks", ConnectionError, before \o <<r>>)
        ELSE IF Success(o) THEN Return("get_tasks", Ok("tasks"), before \o <<r>>)
        ELSE Return("get_tasks", Err("Failed to retrieve tasks"), before \o <<r>>)

get_tasks(plan_id, filter_str, outs) ==
    IF plan_id = Absent \/ plan_id = Null
    THEN LET r1 == Request("get_tasks", "GET /me/planner/plans", outs[1])
         IN  IF outs[1] = "down" THEN Raise("get_tasks", ConnectionError, <<r1>>)
             ELSE IF ~Success(outs[1])
                  THEN Return("get_tasks", Err("Failed to retrieve plans"), <<r1>>)
             ELSE IF outs[1] = "empty"
                  THEN Return("get_tasks", Err("No plans found"), <<r1>>)
             ELSE get_tasks_of_plan(outs[2], <<r1>>)
    ELSE get_tasks_of_plan(outs[1], <<>>)

\* requests.patch(details_url, ...): its response is never looked at.
patch_description(o, before) ==
    LET r3 == Request("create_task", "PATCH /planner/tasks/{id}/details", o)
    IN  IF o = "down" THEN Raise("create_task", ConnectionError, before \o <<r3>>)
        ELSE Return("create_task", Ok("task created"), before \o <<r3>>)

create_task(plan_id, title, description, due_date, outs) ==
    LET r1 == Request("create_task", "GET /planner/plans/{id}/buckets", outs[1])
        r2 == Request("create_task", "POST /planner/tasks", outs[2])
    IN  IF outs[1] = "down" THEN Raise("create_task", ConnectionError, <<r1>>)
        ELSE IF ~Success(outs[1])
             THEN Return("create_task", Err("Failed to retrieve buckets"), <<r1>>)
        ELSE IF outs[1] = "empty"
             THEN Return("create_task", Err("No buckets found in plan"), <<r1>>)
        ELSE IF outs[2] = "down" THEN Raise("create_task", ConnectionError, <<r1, r2>>)
        ELSE IF Success(outs[2])
             THEN IF description # Absent /\ description # Null
                  THEN patch_description(outs[3], <<r1, r2>>)
                  ELSE Return("create_task", Ok("task created"), <<r1, r2>>)
        ELSE Return("create_task", Err("Failed to create task"), <<r1, r2>>)

(***************************************************************************)
(* ai_assistant_agent.py                                                   *)
(***************************************************************************)
Message(role, content) == [role |-> role, content |-> content]

_create_system_prompt ==
    <<"system prompt", "tools: get_emails, send_email, get_tasks, create_task">>

\* Mutant: the system prompt is left out of the payload.
build_messages_without_system(history) == history

\* messages = [{"role": "system", ...}] + self.conversation_history
build_messages(history) == <<Message("system", _create_system_prompt)>> \o history

\* _call_ollama: the text of a 200 response; any other status raises, and so
\* does requests.post when the service cannot be reached.
_call_ollama(response) ==
    IF response.transport = "down" THEN [exc |-> ConnectionError, ret |-> <<>>]
    ELSE IF response.status = 200 THEN [exc |-> NoException, ret |-> response.content]
    ELSE [exc |-> Exception("Exception", "Ollama API error"), ret |-> <<>>]

\* json.loads: whitespace JSON does not know makes it fail, as does a text
\* that is no JSON value.
json_loads(text) ==
    IF text.shape = "object" /\ text.pad \in {"none", "space"}
    THEN [ok |-> TRUE, tool |-> text.tool, parameters |-> text.parameters]
    ELSE [ok |-> FALSE, tool |-> Absent, parameters |-> Absent]

strip(text) == [text EXCEPT !.pad = "none"]

\* text.startswith('{') and text.endswith('}')
in_braces(text) == text.pad = "none" /\ text.shape \in {"braces", "object"}

\* Mutant: a text naming an unsupported tool is not taken for a tool call.
_is_tool_call_supported_only(text) ==
    LET t == strip(text)
    IN  IF in_braces(t)
        THEN IF json_loads(t).ok
             THEN json_loads(t).tool.kind = "str" /\ json_loads(t).tool.str \in
                      {"get_emails", "send_email", "get_tasks", "create_task"}
             ELSE FALSE
        ELSE FALSE

_is_tool_call(text) ==
    LET t == strip(text)
    IN  IF in_braces(t)
        THEN IF json_loads(t).ok THEN json_loads(t).tool # Absent ELSE FALSE
        ELSE FALSE

\* dict.get(key, default) of a parsed JSON object member.
get_or(value, default) == IF value = Absent THEN default ELSE value

\* The value of a key of the parameters mapping.
Value == Str("value")
arg_get(arguments, key, default) == IF key \in arguments.keys THEN Value ELSE default

AttributeError == Exception("AttributeError", "object has no attribute 'get'")
TypeError == Exception("TypeError", "object is not subscriptable")
KeyError(key) == Exception("KeyError", key)

\* Mutant: required keys are read with .get(), so a missing one raises nothing.
subscript_error_lenient(arguments, needed) ==
    IF arguments.kind # "map" THEN TypeError ELSE NoException

\* The first exception that evaluating arguments[k] for the keys of `needed`, in
\* order, raises; NoException when every key is there.
subscript_error(arguments, needed) ==
    IF arguments.kind # "map" THEN TypeError
    ELSE LET missing == {i \in DOMAIN needed : needed[i] \notin arguments.keys}
         IN  IF missing = {} THEN NoException
             ELSE KeyError(needed[CHOOSE i \in missing : \A j \in missing : i <= j])

\* str(v) of a JSON value inside an f-string.
format(v) == IF v.kind = "str" THEN v.str ELSE "None"

\* What the try block of execute_tool does: an operation of the client is
\* called (and returns or raises), or an exception is raised before any call,
\* or a value is returned without a call.
Called(r) ==
    [exc |-> r.exc, ret |-> r.ret, reqs |-> r.reqs,
     ops |-> <<[op |-> r.op, exc |-> r.exc, ret |-> r.ret]>>]
RaisedBefore(e) == [exc |-> e, ret |-> <<>>, reqs |-> <<>>, ops |-> <<>>]
Immediate(v) == [exc |-> NoException, ret |-> <<v>>, reqs |-> <<>>, ops |-> <<>>]

dispatch(function_name, arguments, outs) ==
    IF function_name = Str("get_emails")
    THEN IF arguments.kind # "map" THEN RaisedBefore(AttributeError)
         ELSE Called(get_emails(arg_get(arguments, "limit", Str("10")),
                                arg_get(arguments, "filter", Null), outs))
    ELSE IF function_name = Str("send_email")
    THEN IF subscript_error(arguments, <<"to", "subject", "body">>) # NoException
         THEN RaisedBefore(subscript_error(arguments, <<"to", "subject", "body">>))
         ELSE Called(send_email(Value, Value, Value, outs))
    ELSE IF function_name = Str("get_tasks")
    THEN IF arguments.kind # "map" THEN RaisedBefore(AttributeError)
         ELSE Called(get_tasks(arg_get(arguments, "plan_id", Null),
                               arg_get(arguments, "filter", Null), outs))
    ELSE IF function_name = Str("create_task")
    THEN IF subscript_error(arguments, <<"plan_id", "title">>) # NoException
         THEN RaisedBefore(subscript_error(arguments, <<"plan_id", "title">>))
         ELSE Called(create_task(Value, Value,
                                 arg_get(arguments, "description", Null),
                                 arg_get(arguments, "due_date", Null), outs))
    ELSE Immediate(Err("Unknown function: " \o format(function_name)))

\* Mutant: except KeyError as e
catches_only_KeyError(e) == e[1] = "KeyError"

\* except Exception as e
catches(e) == TRUE

\* execute_tool: exc is what it raises itself, caught what its except clause
\* caught and turned into {"error": str(e)}.
execute_tool(function_name, arguments, outs) ==
    LET run == dispatch(function_name, arguments, outs)
    IN  IF run.exc # NoException /\ catches(run.exc)
        THEN [exc |-> NoException, ret |-> <<Err(run.exc[2])>>, caught |-> run.exc,
              reqs |-> run.reqs, ops |-> run.ops]
        ELSE [exc |-> run.exc, ret |-> run.ret, caught |-> NoException,
              reqs |-> run.reqs, ops |-> run.ops]

tool_marker(name) == Message("assistant", <<"marker", "[Used tool: " \o format(name) \o "]">>)
tool_result_message(result) == Message("user", <<"tool result", result>>)

\* Mutant: the trimmed text is returned.
returned_text_stripped(text) == strip(text)

\* The value process_request hands back for a completion text.
returned_text(text) == text

\* process_request, first statement: the user's text joins the history.
with_user_message(history, user_input) ==
    Append(history, Message("user", <<"input", user_input>>))

\* The normal-response path: the completion text joins the history.
with_assistant_message(history, text) ==
    Append(history, Message("assistant", <<"text", text>>))

\* The tool path: the marker, then the tool result posing as user input.
with_tool_messages(history, name, result) ==
    history \o <<tool_marker(name), tool_result_message(result)>>

(***************************************************************************)
(* ai_assistant_main.py                                                    *)
(***************************************************************************)
\* Mutant: 'clear' leaves the history as it is.
cleared_nothing(history) == history

\* assistant.conversation_history = []
cleared(history) == <<>>

\* Mutant: the shell undoes the aborted turn's messages.
after_exception_rollback(history) == SubSeq(history, 1, mark)

\* except Exception as e: print(...): the loop goes on with the history as
\* the aborted turn left it.
after_exception(history) == history

Init ==
    /\ pc = "prompt"
    /\ conversation_history = <<>>
    /\ token = _authenticate
    /\ valid_tokens = {_authenticate}
    /\ messages = <<>>
    /\ mark = 0
    /\ calls = 0
    /\ replies = <<>>
    /\ tool_name = <<>>
    /\ tool_result = <<>>
    /\ caught = <<>>
    /\ api_ops = <<>>
    /\ api_reqs = <<>>
    /\ outcome = "idle"
    /\ returned = <<>>
    /\ after_clear = "no"
    /\ dropped = 0

\* 'exit' or 'quit' ends the loop.
Quit ==
    /\ pc = "prompt"
    /\ \E line \in Lines :
          /\ lower(line) \in {"exit", "quit"}
          /\ pc' = "exited"
    /\ UNCHANGED <<conversation_history, token, valid_tokens, messages, mark, calls,
                   replies, tool_name, tool_result, caught, api_ops, api_reqs,
                   outcome, returned, after_clear, dropped>>

\* 'clear' empties the history.
ClearHistory ==
    /\ pc = "prompt"
    /\ \E line \in Lines :
          /\ lower(line) \notin {"exit", "quit"}
          /\ lower(line) = "clear"
          /\ conversation_history' = cleared(conversation_history)
          /\ after_clear' = "cleared"
          /\ dropped' = Len(conversation_history)
    /\ UNCHANGED <<pc, token, valid_tokens, messages, mark, calls, replies, tool_name,
                   tool_result, caught, api_ops, api_reqs, outcome, returned>>

\* An empty line is skipped.
BlankLine ==
    /\ pc = "prompt"
    /\ \E line \in Lines :
          /\ lower(line) \notin {"exit", "quit", "clear"}
          /\ line = ""
    /\ UNCHANGED vars

\* Any other line goes to process_request, which appends it to the history
\* and makes the first completion call.
Submit ==
    /\ pc = "prompt"
    /\ Len(conversation_history) < MaxHistory
    /\ \E line \in Lines :
          /\ lower(line) \notin {"exit", "quit", "clear"}
          /\ line # ""
          /\ conversation_history' = with_user_message(conversation_history, line)
          /\ messages' = build_messages(conversation_history')
    /\ mark' = Len(conversation_history)
    /\ calls' = 1
    /\ replies' = <<>>
    /\ tool_name' = <<>>
    /\ tool_result' = <<>>
    /\ caught' = <<>>
    /\ api_ops' = <<>>
    /\ api_reqs' = <<>>
    /\ outcome' = "running"
    /\ returned' = <<>>
    /\ after_clear' = IF after_clear = "cleared" THEN "first_turn" ELSE "no"
    /\ dropped' = IF after_clear = "cleared" THEN dropped ELSE 0
    /\ pc' = "call1"
    /\ UNCHANGED <<token, valid_tokens>>

\* The first completion call fails: _call_ollama raises, process_request lets
\* it through and the shell prints it.
FirstCallFails ==
    /\ pc = "call1"
    /\ \E response \in Completions(Replies) :
          _call_ollama(response).exc # NoException
    /\ conversation_history' = after_exception(conversation_history)
    /\ outcome' = "error"
    /\ pc' = "prompt"
    /\ UNCHANGED <<token, valid_tokens, messages, mark, calls, replies, tool_name,
                   tool_result, caught, api_ops, api_reqs, returned, after_clear,
                   dropped>>

\* The first completion text is handled as a normal response.
PlainReply ==
    /\ pc = "call1"
    /\ \E response \in Completions(Replies) :
          /\ _call_ollama(response).exc = NoException
          /\ LET text == _call_ollama(response).ret[1]
             IN  /\ ~(_is_tool_call(text) /\ json_loads(text).ok)
                 /\ conversation_history' = with_assistant_message(conversation_history, text)
                 /\ replies' = <<text>>
                 /\ returned' = <<returned_text(text)>>
    /\ outcome' = "returned"
    /\ pc' = "prompt"
    /\ UNCHANGED <<token, valid_tokens, messages, mark, calls, tool_name, tool_result,
                   caught, api_ops, api_reqs, after_clear, dropped>>

\* The first completion text is a tool call: the tool is executed, its result
\* joins the history and the second completion call is made.  A request sent
\* with a token the provider no longer honours cannot succeed.
ToolReply ==
    /\ pc = "call1"
    /\ \E response \in Completions(Replies), outs \in [1..3 -> Outcomes] :
          /\ token \in valid_tokens \/ \A i \in 1..3 : ~Success(outs[i])
          /\ _call_ollama(response).exc = NoException
          /\ _is_tool_call(_call_ollama(response).ret[1])
          /\ json_loads(_call_ollama(response).ret[1]).ok
          /\ LET text == _call_ollama(response).ret[1]
                 name == get_or(json_loads(text).tool, Null)
                 parameters == get_or(json_loads(text).parameters, Map({}))
                 run == execute_tool(name, parameters, outs)
             IN  /\ replies' = <<text>>
                 /\ tool_name' = <<name>>
                 /\ api_ops' = run.ops
                 /\ api_reqs' = run.reqs
                 /\ caught' = run.caught
                 /\ IF run.exc # NoException
                    THEN /\ conversation_history' = after_exception(conversation_history)
                         /\ tool_result' = <<>>
                         /\ outcome' = "error"
                         /\ pc' = "prompt"
                         /\ UNCHANGED <<messages, calls>>
                    ELSE /\ conversation_history' =
                               with_tool_messages(conversation_history, name, run.ret[1])
                         /\ tool_result' = run.ret
                         /\ messages' = build_messages(conversation_history')
                         /\ calls' = 2
                         /\ pc' = "call2"
                         /\ UNCHANGED outcome
    /\ UNCHANGED <<token, valid_tokens, mark, returned, after_clear, dropped>>

\* The second completion call fails.
FinalCallFails ==
    /\ pc = "call2"
    /\ \E response \in Completions(FinalReplies) :
          _call_ollama(response).exc # NoException
    /\ conversation_history' = after_exception(conversation_history)
    /\ outcome' = "error"
    /\ pc' = "prompt"
    /\ UNCHANGED <<token, valid_tokens, messages, mark, calls, replies, tool_name,
                   tool_result, caught, api_ops, api_reqs, returned, after_clear,
                   dropped>>

\* The second completion text is the turn's answer, whatever its shape.
FinalReply ==
    /\ pc = "call2"
    /\ \E response \in Completions(FinalReplies) :
          /\ _call_ollama(response).exc = NoException
          /\ LET text == _call_ollama(response).ret[1]
             IN  /\ conversation_history' =
                        with_assistant_message(conversation_history, text)
                 /\ replies' = Append(replies, text)
                 /\ returned' = <<returned_text(text)>>
    /\ outcome' = "returned"
    /\ pc' = "prompt"
    /\ UNCHANGED <<token, valid_tokens, messages, mark, calls, tool_name, tool_result,
                   caught, api_ops, api_reqs, after_clear, dropped>>

\* The access token acquired at start-up expires at the provider.
TokenExpires ==
    /\ pc # "exited"
    /\ valid_tokens # {}
    /\ valid_tokens' = {}
    /\ UNCHANGED <<pc, conversation_history, token, messages, mark, calls, replies,
                   tool_name, tool_result, caught, api_ops, api_reqs, outcome,
                   returned, after_clear, dropped>>

Next ==
    \/ Quit
    \/ ClearHistory
    \/ BlankLine
    \/ Submit
    \/ FirstCallFails
    \/ PlainReply
    \/ ToolReply
    \/ FinalCallFails
    \/ FinalReply
    \/ TokenExpires

Spec == Init /\ [][Next]_vars

(***************************************************************************)
(* Vocabulary of the properties.                                           *)
(***************************************************************************)
SupportedTools == {"get_emails", "send_email", "get_tasks", "create_task"}

\* After trimming whitespace the text starts with '{' and ends with '}'.
TrimmedInBraces(t) == t.shape \in {"braces", "object"}
\* The text, as received, is a JSON document.
Parses(t) == t.shape = "object" /\ t.pad # "formfeed"
HasToolKey(t) == t.tool.kind # "absent"

PlainCase(t) == ~TrimmedInBraces(t) \/ ~Parses(t) \/ ~HasToolKey(t)
ToolCase(t) == ~PlainCase(t)
NamesSupportedTool(t) == t.tool.kind = "str" /\ t.tool.str \in SupportedTools
NamesUnknownTool(t) == ~NamesSupportedTool(t)

RequiredKeys(name) ==
    CASE name = "send_email" -> {"to", "subject", "body"}
      [] name = "create_task" -> {"plan_id", "title"}
      [] OTHER -> {}

\* 'parameters' is a mapping (an absent one counts as empty) holding every
\* key the named tool requires.
HasRequiredParameters(t) ==
    \/ t.parameters.kind = "map" /\ RequiredKeys(t.tool.str) \subseteq t.parameters.keys
    \/ t.parameters.kind = "absent" /\ RequiredKeys(t.tool.str) = {}

\* The current turn received a first completion text.
Answered == Len(replies) >= 1
\* The history still shows the current turn (no 'clear' since).
TurnVisible == after_clear # "cleared"

IsUserInput(m) == m.role = "user" /\ m.content[1] = "input"
IsMarkerOf(m, t) ==
    m = Message("assistant", <<"marker", "[Used tool: " \o t.tool.str \o "]">>)
IsToolResult(m) ==
    /\ m.role = "user"
    /\ m.content[1] = "tool result"
    /\ <<m.content[2]>> = tool_result
IsFinalAnswer(m) ==
    /\ Len(replies) = 2
    /\ m = Message("assistant", <<"text", replies[2]>>)

\* The three messages of a completed tool turn, after the user's message.
ThreeMessagesInOrder(t) ==
    /\ Len(conversation_history) = mark + 4
    /\ IsUserInput(conversation_history[mark + 1])
    /\ IsMarkerOf(conversation_history[mark + 2], t)
    /\ IsToolResult(conversation_history[mark + 3])
    /\ IsFinalAnswer(conversation_history[mark + 4])

\* C1 as stated: a completed tool turn naming a supported tool invoked exactly
\* one operation of the client, the one named, made two completion calls,
\* returned the second completion's text unchanged and appended the marker,
\* the tool result and the final text, in this order.
C1_ExactlyOneOperation ==
    (outcome = "returned" /\ TurnVisible /\ Answered /\ ToolCase(replies[1])
        /\ NamesSupportedTool(replies[1]))
    => /\ Len(api_ops) = 1
       /\ api_ops[1].op = replies[1].tool.str
       /\ calls = 2
       /\ Len(replies) = 2
       /\ returned = <<replies[2]>>
       /\ ThreeMessagesInOrder(replies[1])

\* C1 amended: at most one operation of the client is invoked, the one named:
\* exactly one when 'parameters' is absent or a mapping that holds the tool's
\* required keys, none otherwise.  The rest as stated.
C1_AtMostOneOperation ==
    (outcome = "returned" /\ TurnVisible /\ Answered /\ ToolCase(replies[1])
        /\ NamesSupportedTool(replies[1]))
    => /\ Len(api_ops) <= 1
       /\ \A i \in DOMAIN api_ops : api_ops[i].op = replies[1].tool.str
       /\ \A i \in DOMAIN api_reqs : api_reqs[i].op = replies[1].tool.str
       /\ (Len(api_ops) = 1) <=> HasRequiredParameters(replies[1])
       /\ calls = 2
       /\ Len(replies) = 2
       /\ returned = <<replies[2]>>
       /\ ThreeMessagesInOrder(replies[1])

\* A completed tool turn that invoked its operation and whose final text is
\* itself shaped like a tool call.
C1_Witness ==
    /\ outcome = "returned" /\ TurnVisible /\ Answered
    /\ ToolCase(replies[1]) /\ NamesSupportedTool(replies[1])
    /\ Len(api_ops) = 1
    /\ Len(api_reqs) = 3
    /\ ToolCase(returned[1])

\* C2: a first completion text that is not in braces after trimming, or does
\* not parse, or has no 'tool' key ends the turn at once: it is returned
\* verbatim, one assistant message with it follows the user's message, one
\* completion call was made and no operation of the client was invoked.
C2_PlainTextVerbatim ==
    (Answered /\ PlainCase(replies[1]))
    => /\ outcome = "returned"
       /\ pc \in {"prompt", "exited"}
       /\ returned = <<replies[1]>>
       /\ calls = 1
       /\ Len(replies) = 1
       /\ api_ops = <<>>
       /\ api_reqs = <<>>
       /\ tool_name = <<>>
       /\ TurnVisible =>
             /\ Len(conversation_history) = mark + 2
             /\ IsUserInput(conversation_history[mark + 1])
             /\ conversation_history[mark + 2] =
                    Message("assistant", <<"text", replies[1]>>)

\* A plain turn whose text is a JSON object with a 'tool' key wrapped in
\* whitespace that JSON does not allow, after an earlier turn.
C2_Witness ==
    /\ Answered /\ PlainCase(replies[1]) /\ outcome = "returned" /\ TurnVisible
    /\ replies[1].pad = "formfeed"
    /\ replies[1].tool = Str("get_emails")
    /\ mark >= 1

\* C3: a tool call naming none of the four tools yields the error "Unknown
\* function: <name>" with no operation of the client invoked and no request
\* sent; the turn goes on as a tool turn: marker, tool-result message with
\* that error, second completion call, whose text is returned.
C3_UnknownToolRoundTrip ==
    (Answered /\ ToolCase(replies[1]) /\ NamesUnknownTool(replies[1]))
    => /\ Len(tool_result) = 1
       /\ tool_result[1].error
       /\ replies[1].tool.kind = "str"
             => tool_result[1].text = "Unknown function: " \o replies[1].tool.str
       /\ api_ops = <<>>
       /\ api_reqs = <<>>
       /\ calls = 2
       /\ pc = "call2" =>
             /\ outcome = "running"
             /\ Len(messages) = mark + 4
             /\ IsToolResult(messages[mark + 4])
       /\ TurnVisible =>
             /\ Len(conversation_history) >= mark + 3
             /\ conversation_history[mark + 2].role = "assistant"
             /\ conversation_history[mark + 2].content[1] = "marker"
             /\ replies[1].tool.kind = "str"
                   => IsMarkerOf(conversation_history[mark + 2], replies[1])
             /\ IsToolResult(conversation_history[mark + 3])
       /\ outcome = "returned" =>
             /\ Len(replies) = 2
             /\ returned = <<replies[2]>>
             /\ TurnVisible => IsFinalAnswer(conversation_history[mark + 4])

\* A completed turn whose first completion text named the tool "foo".
C3_Witness ==
    /\ Answered /\ ToolCase(replies[1])
    /\ replies[1].tool = Str("foo")
    /\ outcome = "returned"
    /\ TurnVisible
    /\ tool_result = <<Err("Unknown function: foo")>>

\* C4: after 'clear' the history is empty, and the first completion call of
\* the next turn gets two messages: the system prompt and the new user
\* message.
C4_ClearResetsHistory ==
    /\ after_clear = "cleared" => conversation_history = <<>>
    /\ (after_clear = "first_turn" /\ pc = "call1") =>
          /\ mark = 0
          /\ Len(messages) = 2
          /\ messages[1] = Message("system", _create_system_prompt)
          /\ IsUserInput(messages[2])
          /\ conversation_history = <<messages[2]>>

\* The first call of the turn after a 'clear' that discarded the leftovers of
\* a tool turn whose second call failed.
C4_Witness ==
    /\ after_clear = "first_turn"
    /\ pc = "call1"
    /\ dropped >= 3

\* C5: a completion call in flight carries one system message followed by the
\* whole history as it stands; the history holds no system message.
C5_SystemThenHistory ==
    /\ pc \in {"call1", "call2"} =>
          /\ Len(messages) = Len(conversation_history) + 1
          /\ messages[1].role = "system"
          /\ \A i \in DOMAIN conversation_history :
                messages[i + 1] = conversation_history[i]
          /\ calls = IF pc = "call1" THEN 1 ELSE 2
    /\ \A i \in DOMAIN conversation_history :
          conversation_history[i].role \in {"user", "assistant"}

\* A second completion call of a turn that began with earlier turns in the
\* history.
C5_Witness ==
    /\ pc = "call2"
    /\ mark >= 2
    /\ Len(messages) = mark + 4

\* C6 as stated: every operation of the client invoked in the turn returned,
\* whatever became of its requests, and returned an error value if a request
\* it sent failed (the description PATCH, whose failure C8 keeps hidden, set
\* aside).
C6_OperationsNeverRaise ==
    \A i \in DOMAIN api_ops :
        /\ api_ops[i].exc = NoException
        /\ (\E k \in DOMAIN api_reqs :
               /\ ~Success(api_reqs[k].outcome)
               /\ api_reqs[k].url # "PATCH /planner/tasks/{id}/details")
              => (Len(api_ops[i].ret) = 1 /\ api_ops[i].ret[1].error)

\* C7 as stated: every request sent to the Graph API carried a token that was
\* valid when it was sent.
C7_TokenValidWhenSent ==
    \A k \in DOMAIN api_reqs : api_reqs[k].live

\* C8 as stated: create_task with a description, a bucket found and the task
\* created (201) is a success for the operation and for the loop, whatever
\* becomes of the PATCH; the PATCH follows a 201 only, and a plan without
\* buckets gets an error and no POST.
C8_PatchFailureHidden ==
    (Len(api_ops) = 1 /\ api_ops[1].op = "create_task") =>
       /\ ("description" \in replies[1].parameters.keys
              /\ Len(api_reqs) >= 2
              /\ api_reqs[1].outcome = "ok"
              /\ Success(api_reqs[2].outcome))
          => /\ api_ops[1].ret = <<Ok("task created")>>
             /\ tool_result = <<Ok("task created")>>
       /\ Len(api_reqs) = 3 =>
             /\ Success(api_reqs[2].outcome)
             /\ api_reqs[2].url = "POST /planner/tasks"
       /\ api_reqs[1].outcome = "empty" =>
             /\ Len(api_reqs) = 1
             /\ tool_result = <<Err("No buckets found in plan")>>

\* C9: execute_tool raises nothing: a tool call always gets a result, which
\* is {"error": str(e)} when an exception e occurred; a missing required key
\* gives the error with no operation invoked; the turn goes on to the marker,
\* the tool-result message and the second completion call.
C9_DispatchNeverRaises ==
    (Answered /\ ToolCase(replies[1]))
    => /\ Len(tool_result) = 1
       /\ calls = 2
       /\ caught # NoException => tool_result = <<Err(caught[2])>>
       /\ \A i \in DOMAIN api_ops :
             api_ops[i].exc # NoException
                => (caught = api_ops[i].exc /\ tool_result[1].error)
       /\ (NamesSupportedTool(replies[1]) /\ ~HasRequiredParameters(replies[1]))
             => /\ caught # NoException
                /\ tool_result[1].error
                /\ api_ops = <<>>
                /\ api_reqs = <<>>
       /\ outcome = "error" => pc \in {"prompt", "exited"}
       /\ TurnVisible =>
             /\ Len(conversation_history) >= mark + 3
             /\ conversation_history[mark + 2].role = "assistant"
             /\ conversation_history[mark + 2].content[1] = "marker"
             /\ IsToolResult(conversation_history[mark + 3])

\* The second completion call of a send_email turn whose 'to' is missing.
C9_Witness ==
    /\ pc = "call2"
    /\ replies[1].tool = Str("send_email")
    /\ caught = KeyError("to")
    /\ tool_result = <<Err("to")>>
    /\ api_ops = <<>>

\* C10, the states: a failed turn returns nothing and leaves the shell alive;
\* after a failed first call the history ends with the turn's user message,
\* after a failed second call with user message, marker and tool result, the
\* operation having run.
C10_FailedTurnState ==
    outcome = "error" =>
       /\ pc \in {"prompt", "exited"}
       /\ returned = <<>>
       /\ (calls = 1 /\ TurnVisible) =>
             /\ Len(conversation_history) = mark + 1
             /\ IsUserInput(conversation_history[mark + 1])
             /\ api_ops = <<>>
             /\ replies = <<>>
       /\ (calls = 2 /\ TurnVisible) =>
             /\ Len(conversation_history) = mark + 3
             /\ IsUserInput(conversation_history[mark + 1])
             /\ conversation_history[mark + 2].role = "assistant"
             /\ conversation_history[mark + 2].content[1] = "marker"
             /\ IsToolResult(conversation_history[mark + 3])
             /\ Len(replies) = 1

\* C10, the steps: a failing call changes nothing in the history and returns
\* to the prompt, and the first call of the next turn carries everything the
\* history held, leftovers included.
C10_FailedTurnStep ==
    /\ (outcome # "error" /\ outcome' = "error")
          => /\ conversation_history' = conversation_history
             /\ pc' = "prompt"
    /\ (pc = "prompt" /\ pc' = "call1")
          => /\ Len(messages') = Len(conversation_history) + 2
             /\ \A i \in DOMAIN conversation_history :
                   messages'[i + 1] = conversation_history[i]

====
